---- MODULE Spec2Model ----
(***************************************************************************)
(* FlashSync (src/src/extension.ts): the session state machine, the start  *)
(* and stop operations with their suspension points, the debounced change  *)
(* pipeline and the broadcast to the clients of the current hub.           *)
(*                                                                         *)
(* Handles are small integers: listener i and hub i are the pair created   *)
(* by the i-th startServer invocation that got past the guard; 0 is null.  *)
(***************************************************************************)
EXTENDS Integers, Sequences, FiniteSets, TLC

\* ------------------------------------------------------------------ bounds
MaxListeners == 2      \* startServer invocations that get past the guard
MaxEdits == 2          \* edit events over the whole run
MaxClients == 1        \* browser sockets
CountCap == 2          \* the per-burst event counters saturate here
MaxPeers == 2          \* browser sockets where the hub is looked at alone
MaxSockets == 3        \* WebSocket objects one page creates

\* ------------------------------------------------------- program constants
PreferredPort == 9090

NoRoot == "undefined"
Roots == {"rootA", "rootB"}

Slots == 1..MaxListeners
ClientIds == 1..MaxClients
\* The probe recursion has no ceiling in the code; with one foreign port and
\* at most MaxListeners own bindings it always ends within this range.
Ports == PreferredPort..(PreferredPort + MaxListeners)
ForeignPorts == {PreferredPort}

\* ------------------------------------------------------------- documents
\* A file name is a tuple of characters, so that extname and toLowerCase
\* are computed and not assumed.
\* Two open documents: one of a watched kind, in upper case, and one not.
Docs == 1..2
FileName(d) ==
    CASE d = 1 -> <<"a", ".", "H", "T", "M">>
      [] d = 2 -> <<"n", ".", "j", "s">>

LowerChar(c) ==
    CASE c = "H" -> "h"
      [] c = "T" -> "t"
      [] c = "M" -> "m"
      [] c = "L" -> "l"
      [] c = "C" -> "c"
      [] c = "S" -> "s"
      [] c = "J" -> "j"
      [] OTHER -> c

toLowerCase(s) == [i \in 1..Len(s) |-> LowerChar(s[i])]

\* path.extname: from the last "." of the base name to its end; "" when there
\* is no "." or the only "." is the first character.
extname(f) ==
    LET dots == {i \in 1..Len(f) : f[i] = "."}
        lastDot == CHOOSE i \in dots : \A j \in dots : j <= i
    IN  IF dots = {} THEN <<>>
        ELSE IF lastDot = 1 THEN <<>>
        ELSE SubSeq(f, lastDot, Len(f))

WatchedExts ==
    { <<".", "h", "t", "m", "l">>, <<".", "h", "t", "m">>, <<".", "c", "s", "s">> }

IsWatchedAll(f) == TRUE

IsWatched(f) == toLowerCase(extname(f)) \in WatchedExts

\* --------------------------------------------------------------- state
VARIABLES
    wss,                 \* hub handle, 0 = null
    httpServer,          \* listener handle, 0 = null
    activePort,          \* 0 = null
    currentRoot,
    listenersRegistered,
    handlers,            \* pairs of change/save handlers registered so far
    debounceTimers,      \* Map key -> timer handle (0 = no entry); the handle of
                         \* a key's timer is the text version it was set at
    serverState,
    calls,               \* startServer invocations: position and probe port
    servers,             \* the http.Server objects ever created
    hubs,                \* the WebSocketServer objects ever created
    clients,             \* browser sockets: hub they are attached to, readyState
    timers,              \* timers scheduled in the event loop
    foreign,             \* ports bound by other processes
    docText,             \* version of each document's text
    out,                 \* what the step just taken sent and returned
    burst,               \* per document: the edits, saves and broadcasts
                         \* since its pending timer was first scheduled
    inj,                 \* injectScript: the document, the port and the results
    page                 \* the client script in one browser page

vars == << wss, httpServer, activePort, currentRoot, listenersRegistered,
           handlers, debounceTimers, serverState, calls, servers, hubs, clients, timers,
           foreign, docText, out, burst, inj, page >>

\* The first workspace folder the commands can see: none, or rootA, or (once
\* a root has been served) rootB as well. Naming the first folder ever served
\* rootA loses nothing: the two roots are interchangeable.
Folders == IF currentRoot = NoRoot THEN {NoRoot, "rootA"} ELSE {NoRoot, "rootA", "rootB"}

NoCall == [pc |-> "unused", root |-> NoRoot, probe |-> 0]
NoServer == [status |-> "none", port |-> 0, root |-> NoRoot, cb |-> FALSE]
NoClient == [hub |-> 0, rs |-> 3]

NoBurst == [n |-> 0, cs |-> {}, saved |-> FALSE, bcasts |-> 0]

\* No document handed to injectScript; no page loaded in a browser.
NoInj == [src |-> << >>, port |-> 0, runs |-> 0, prev |-> << >>, text |-> << >>]
NoMsg == [file |-> << >>, content |-> 0, kind |-> "none"]
NoPage ==
    [loaded |-> FALSE, socks |-> [s \in 1..MaxSockets |-> "none"], pending |-> 0,
     style |-> 0, dom |-> 0, last |-> NoMsg]

\* What a step did that the program's variables do not keep: op names the
\* handler that ran ("step" for the ones no property asks about), doc the
\* document it ran for, sched the session state at the time the fired timer
\* was scheduled, msgs the messages handed to client sockets, ret the port
\* startServer returned (0 when it returned nothing in this step).
Did(op, doc, sched, msgs, ret) ==
    [op |-> op, doc |-> doc, sched |-> sched, msgs |-> msgs, ret |-> ret,
     log |-> << >>, times |-> 0]
Quiet == Did("step", 0, "none", {}, 0)

\* The extension right after activate(), with the given browser sockets.
InitSession(ids) ==
    /\ wss = 0
    /\ httpServer = 0
    /\ activePort = 0
    /\ currentRoot = NoRoot
    /\ listenersRegistered = FALSE
    /\ handlers = 0
    /\ debounceTimers = [d \in Docs |-> 0]
    /\ serverState = "stopped"
    /\ calls = [i \in Slots |-> NoCall]
    /\ servers = [i \in Slots |-> NoServer]
    /\ hubs = [i \in Slots |-> "none"]
    /\ clients = [c \in ids |-> NoClient]
    /\ timers = {}
    /\ foreign = {}
    /\ docText = [d \in Docs |-> 0]
    /\ out = Quiet
    /\ burst = [d \in Docs |-> NoBurst]

Init ==
    /\ InitSession(ClientIds)
    /\ inj = NoInj
    /\ page = NoPage

\* Ports somebody is listening on: foreign processes and the session's own
\* listeners.
BoundPorts ==
    foreign
    \cup {servers[i].port : i \in {j \in Slots : servers[j].status = "listening"}}

FreeSlots == {i \in Slots : calls[i].pc = "unused"}

\* ------------------------------------------------------------- broadcast
OpenClients(h) == {c \in DOMAIN clients : clients[c].hub = h /\ clients[c].rs = 1}

\* One message handed to a client's socket; st is the session state at the
\* moment of the send.
Msg(c, d) ==
    [to |-> c, hub |-> wss, doc |-> d, file |-> FileName(d),
     content |-> docText[d], st |-> serverState]

broadcastNoStateCheck(d) ==
    IF wss = 0 THEN {}
    ELSE IF ~IsWatched(FileName(d)) THEN {}
    ELSE {Msg(c, d) : c \in OpenClients(wss)}

broadcastToEveryClient(d) ==
    IF wss = 0 THEN {}
    ELSE IF serverState # "running_editing" THEN {}
    ELSE IF ~IsWatched(FileName(d)) THEN {}
    ELSE {Msg(c, d) : c \in {x \in DOMAIN clients : clients[x].hub = wss}}

\* broadcastIfAllowed(doc): the set of messages it sends.
broadcastIfAllowed(d) ==
    IF wss = 0 THEN {}
    ELSE IF serverState # "running_editing" THEN {}
    ELSE IF ~IsWatched(FileName(d)) THEN {}
    ELSE {Msg(c, d) : c \in OpenClients(wss)}

\* ------------------------------------------------- per-burst bookkeeping
Min(a, b) == IF a < b THEN a ELSE b
Pending(d) == {t \in timers : t.doc = d}

\* A burst of document d runs from the edit that schedules a timer while
\* none is scheduled for d until no timer of d is left. cs holds the clients
\* that have been open on the current hub, with the state LiveEditing, ever
\* since the burst began.
BurstNext(d, op, arg) ==
    LET b == burst[d]
        stay == {c \in b.cs : /\ serverState' = "running_editing"
                              /\ wss' = wss
                              /\ clients'[c] = clients[c]}
        mine == arg = d
        sentHere == IF mine /\ op \in {"fire", "save"} /\ out'.msgs # {}
                    THEN 1 ELSE 0
        savedHere == mine /\ op = "save"
    IN  IF mine /\ op = "edit" /\ listenersRegistered
        THEN IF Pending(d) = {}
             THEN [n |-> 1,
                   cs |-> IF serverState = "running_editing"
                          THEN OpenClients(wss) ELSE {},
                   saved |-> FALSE, bcasts |-> 0]
             ELSE [b EXCEPT !.n = Min(@ + 1, CountCap), !.cs = stay]
        ELSE IF Pending(d) = {} THEN NoBurst
        ELSE [b EXCEPT !.cs = stay,
                       !.saved = @ \/ savedHere,
                       !.bcasts = Min(@ + sentHere, CountCap)]

Track(op, arg) ==
    /\ burst' = [d \in Docs |-> BurstNext(d, op, arg)]
    /\ UNCHANGED << inj, page >>

\* -------------------------------------------------------------- start
ProbeErrorSkip(i) ==
    /\ calls[i].pc = "probing"
    /\ calls[i].probe \in BoundPorts
    /\ calls[i].probe + 2 \in Ports
    /\ calls' = [calls EXCEPT ![i].probe = @ + 2]
    /\ out' = Quiet
    /\ UNCHANGED << wss, httpServer, activePort, currentRoot, listenersRegistered,
                    handlers, debounceTimers, serverState, servers, hubs, clients, timers,
                    foreign, docText, burst, inj, page >>

\* getFreePort: the probe's listen fails, the next port is tried.
ProbeError(i) ==
    /\ calls[i].pc = "probing"
    /\ calls[i].probe \in BoundPorts
    /\ calls[i].probe + 1 \in Ports
    /\ calls' = [calls EXCEPT ![i].probe = @ + 1]
    /\ out' = Quiet
    /\ UNCHANGED << wss, httpServer, activePort, currentRoot, listenersRegistered,
                    handlers, debounceTimers, serverState, servers, hubs, clients, timers,
                    foreign, docText >>
    /\ Track("step", 0)

SessionActiveByState == serverState # "stopped"

\* The guard of startServer: if (httpServer) return activePort.
SessionActive == httpServer # 0

\* startServer(root) up to its first await: the guard, the root assignment
\* and the first probe of getFreePort(9090). ret = 0: suspended at the await.
startServer(root, op) ==
    IF SessionActive
    THEN /\ out' = Did("start", 0, "none", {}, activePort)
         /\ UNCHANGED << wss, httpServer, activePort, currentRoot,
                         listenersRegistered, handlers, debounceTimers, serverState, calls,
                         servers, hubs, clients, timers, foreign, docText >>
    ELSE /\ FreeSlots # {}
         /\ LET i == CHOOSE j \in FreeSlots : \A k \in FreeSlots : j <= k
            IN  /\ currentRoot' = root
                /\ calls' = [calls EXCEPT ![i] =
                                [pc |-> "probing", root |-> root, probe |-> PreferredPort]]
                /\ out' = Did("start", 0, "none", {}, 0)
         /\ UNCHANGED << wss, httpServer, activePort, listenersRegistered,
                         handlers, debounceTimers, serverState, servers, hubs, clients,
                         timers, foreign, docText >>

RegisterListenersAgain ==
    /\ listenersRegistered' = TRUE
    /\ handlers' = handlers + 1

\* if (!listenersRegistered) { listenersRegistered = true; ... }: the change
\* and the save handler are registered under the flag.
RegisterListeners ==
    IF listenersRegistered
    THEN UNCHANGED << listenersRegistered, handlers >>
    ELSE /\ listenersRegistered' = TRUE
         /\ handlers' = handlers + 1

\* getFreePort: the probe's listen succeeds, its close callback resolves the
\* port and startServer runs on to its return: the listener and the hub are
\* created and listen is called.
StartResume(i) ==
    /\ calls[i].pc = "probing"
    /\ calls[i].probe \notin BoundPorts
    /\ activePort' = calls[i].probe
    /\ httpServer' = i
    /\ servers' = [servers EXCEPT ![i] =
                      [status |-> "binding", port |-> calls[i].probe,
                       root |-> calls[i].root, cb |-> TRUE]]
    /\ wss' = i
    /\ hubs' = [hubs EXCEPT ![i] = "open"]
    /\ RegisterListeners
    /\ calls' = [calls EXCEPT ![i].pc = "done"]
    /\ out' = Did("startReturn", 0, "none", {}, calls[i].probe)
    /\ UNCHANGED << currentRoot, debounceTimers, serverState, clients, timers,
                    foreign, docText >>
    /\ Track("step", 0)

\* The callback given to httpServer.listen.
ListenCallback(i) ==
    /\ servers[i].cb
    /\ servers[i].status = "binding"
    /\ servers[i].port \notin BoundPorts
    /\ servers' = [servers EXCEPT ![i].status = "listening", ![i].cb = FALSE]
    /\ serverState' = "running_editing"
    /\ out' = Quiet
    /\ UNCHANGED << wss, httpServer, activePort, currentRoot, listenersRegistered,
                    handlers, debounceTimers, calls, hubs, clients, timers, foreign, docText >>
    /\ Track("step", 0)

ListenErrorGivesUp(i) ==
    /\ servers[i].cb
    /\ servers[i].status = "binding"
    /\ servers[i].port \in BoundPorts
    /\ servers' = [servers EXCEPT ![i].status = "failed", ![i].cb = FALSE]
    /\ httpServer' = 0
    /\ serverState' = "stopped"
    /\ out' = Quiet
    /\ UNCHANGED << wss, activePort, currentRoot, listenersRegistered, handlers,
                    debounceTimers, calls, hubs, clients, timers,
                    foreign, docText, burst, inj, page >>

\* listen fails (the port was taken after the probe released it): the
\* server emits 'error' and the callback never runs.
ListenError(i) ==
    /\ servers[i].cb
    /\ servers[i].status = "binding"
    /\ servers[i].port \in BoundPorts
    /\ servers' = [servers EXCEPT ![i].status = "failed", ![i].cb = FALSE]
    /\ out' = Quiet
    /\ UNCHANGED << wss, httpServer, activePort, currentRoot, listenersRegistered,
                    handlers, debounceTimers, serverState, calls, hubs, clients, timers,
                    foreign, docText >>
    /\ Track("step", 0)

\* A listener closed by stop before its callback ran: the runtime may still
\* deliver the callback, or drop it.
LateListenCallback(i) ==
    /\ servers[i].cb
    /\ servers[i].status = "closed"
    /\ servers' = [servers EXCEPT ![i].cb = FALSE]
    /\ serverState' = "running_editing"
    /\ out' = Quiet
    /\ UNCHANGED << wss, httpServer, activePort, currentRoot, listenersRegistered,
                    handlers, debounceTimers, calls, hubs, clients, timers, foreign, docText >>
    /\ Track("step", 0)

DropListenCallback(i) ==
    /\ servers[i].cb
    /\ servers[i].status = "closed"
    /\ servers' = [servers EXCEPT ![i].cb = FALSE]
    /\ out' = Quiet
    /\ UNCHANGED << wss, httpServer, activePort, currentRoot, listenersRegistered,
                    handlers, debounceTimers, serverState, calls, hubs, clients, timers,
                    foreign, docText >>
    /\ Track("step", 0)

\* --------------------------------------------------------------- stop
\* The calls stopServer makes, in the order of its statements: wss?.close()
\* and httpServer?.close() are made only on a handle that is not null, and
\* the four assignments follow them.
StopCalls ==
    (IF wss # 0 THEN << [call |-> "wss.close", on |-> wss] >> ELSE << >>)
    \o (IF httpServer # 0
        THEN << [call |-> "httpServer.close", on |-> httpServer] >>
        ELSE << >>)
    \o << [call |-> "clear", on |-> 0] >>

stopServerClearFirst(terminate) ==
    /\ hubs' = IF wss # 0 THEN [hubs EXCEPT ![wss] = "closed"] ELSE hubs
    /\ clients' = IF wss # 0 /\ terminate
                  THEN [c \in DOMAIN clients |->
                           IF clients[c].hub = wss THEN NoClient ELSE clients[c]]
                  ELSE clients
    /\ servers' = IF httpServer # 0
                  THEN [servers EXCEPT ![httpServer].status = "closed"]
                  ELSE servers
    /\ wss' = 0
    /\ httpServer' = 0
    /\ activePort' = 0
    /\ serverState' = "stopped"
    /\ out' = [Did("stop", 0, "none", {}, 0) EXCEPT
                 !.log = [i \in 1..Len(StopCalls) |->
                             StopCalls[Len(StopCalls) + 1 - i]]]
    /\ UNCHANGED << currentRoot, listenersRegistered, handlers, debounceTimers, calls,
                    timers, foreign, docText >>

stopServerKeepPort(terminate) ==
    /\ hubs' = IF wss # 0 THEN [hubs EXCEPT ![wss] = "closed"] ELSE hubs
    /\ clients' = IF wss # 0 /\ terminate
                  THEN [c \in DOMAIN clients |->
                           IF clients[c].hub = wss THEN NoClient ELSE clients[c]]
                  ELSE clients
    /\ servers' = IF httpServer # 0
                  THEN [servers EXCEPT ![httpServer].status = "closed"]
                  ELSE servers
    /\ wss' = 0
    /\ httpServer' = 0
    /\ serverState' = "stopped"
    /\ out' = [Did("stop", 0, "none", {}, 0) EXCEPT !.log = StopCalls]
    /\ UNCHANGED << activePort, currentRoot, listenersRegistered, handlers, debounceTimers,
                    calls, timers, foreign, docText >>

\* stopServer. wss?.close() detaches the hub from the listener; whether it
\* also terminates the hub's sockets depends on the ws release, so both
\* outcomes are allowed. Neither close is reached on a null handle and both
\* sit in try/catch, so nothing is thrown.
stopServer(terminate) ==
    /\ hubs' = IF wss # 0 THEN [hubs EXCEPT ![wss] = "closed"] ELSE hubs
    /\ clients' = IF wss # 0 /\ terminate
                  THEN [c \in DOMAIN clients |->
                           IF clients[c].hub = wss THEN NoClient ELSE clients[c]]
                  ELSE clients
    /\ servers' = IF httpServer # 0
                  THEN [servers EXCEPT ![httpServer].status = "closed"]
                  ELSE servers
    /\ wss' = 0
    /\ httpServer' = 0
    /\ activePort' = 0
    /\ serverState' = "stopped"
    /\ out' = [Did("stop", 0, "none", {}, 0) EXCEPT !.log = StopCalls]
    /\ UNCHANGED << currentRoot, listenersRegistered, handlers, debounceTimers, calls,
                    timers, foreign, docText >>

\* The flashsync.stop command.
Stop(terminate) == stopServer(terminate) /\ Track("step", 0)

\* ------------------------------------------------------------ commands
\* currentRoot || workspaceFolders?.[0]?.uri.fsPath; wf is the first
\* workspace folder (NoRoot when no folder is open). The quick pick is
\* reached only with no root and more than one folder, which cannot be.
ChooseRoot(wf) == IF currentRoot # NoRoot THEN currentRoot ELSE wf

NoOp(op) ==
    /\ out' = Quiet
    /\ UNCHANGED << wss, httpServer, activePort, currentRoot, listenersRegistered,
                    handlers, debounceTimers, serverState, calls, servers, hubs, clients,
                    timers, foreign, docText >>

SetStateCancelTimers(st, op) ==
    /\ serverState' = st
    /\ timers' = {}
    /\ debounceTimers' = [d \in Docs |-> 0]
    /\ out' = Quiet
    /\ UNCHANGED << wss, httpServer, activePort, currentRoot, listenersRegistered,
                    handlers, calls, servers, hubs, clients, foreign, docText >>

SetState(st, op) ==
    /\ serverState' = st
    /\ out' = Quiet
    /\ UNCHANGED << wss, httpServer, activePort, currentRoot, listenersRegistered,
                    handlers, debounceTimers, calls, servers, hubs, clients, timers, foreign,
                    docText >>

\* The flashsync.toggle command: start, pause or resume.
Toggle(wf) ==
    /\ IF serverState = "stopped"
       THEN IF ChooseRoot(wf) = NoRoot
            THEN NoOp("noFolder")
            ELSE startServer(ChooseRoot(wf), "toggleStart")
       ELSE IF serverState = "running_editing"
            THEN SetState("running_paused", "pause")
            ELSE SetState("running_editing", "resume")
    /\ Track("step", 0)

\* The flashsync.openFile command: starts the server in any state.
OpenFile(wf) ==
    /\ IF ChooseRoot(wf) = NoRoot
       THEN NoOp("noFolder")
       ELSE startServer(ChooseRoot(wf), "openFile")
    /\ Track("step", 0)

\* ------------------------------------------------------- change pipeline
RECURSIVE SumText(_)
SumText(D) ==
    IF D = {} THEN 0
    ELSE LET d == CHOOSE x \in D : TRUE IN docText[d] + SumText(D \ {d})

TotalEdits == SumText(Docs)

ScheduleCancelAll(d, id) ==
    /\ timers' = {[doc |-> d, id |-> id, sched |-> serverState]}
    /\ debounceTimers' = [x \in Docs |-> IF x = d THEN id ELSE 0]

ScheduleNoCancel(d, id) ==
    /\ timers' = timers \cup {[doc |-> d, id |-> id, sched |-> serverState]}
    /\ debounceTimers' = [debounceTimers EXCEPT ![d] = id]

\* The onDidChangeTextDocument handler: clear the key's timer if the map has
\* one, schedule a new timer and put it in the map.
Schedule(d, id) ==
    /\ timers' = {t \in timers : ~(t.doc = d /\ t.id = debounceTimers[d])}
                   \cup {[doc |-> d, id |-> id, sched |-> serverState]}
    /\ debounceTimers' = [debounceTimers EXCEPT ![d] = id]

\* The user changes a document. The handler exists once startServer has
\* registered it.
Edit(d) ==
    /\ TotalEdits < MaxEdits
    /\ docText' = [docText EXCEPT ![d] = @ + 1]
    /\ IF listenersRegistered
       THEN Schedule(d, docText[d] + 1)
       ELSE UNCHANGED << timers, debounceTimers >>
    /\ out' = Quiet
    /\ UNCHANGED << wss, httpServer, activePort, currentRoot, listenersRegistered,
                    handlers, serverState, calls, servers, hubs, clients, foreign >>
    /\ Track("edit", d)

FireGatedAtSchedule(t) ==
    /\ out' = [Did("fire", t.doc, t.sched,
                   IF t.sched = "running_editing"
                   THEN broadcastNoStateCheck(t.doc) ELSE {}, 0)
                  EXCEPT !.times = 1]
    /\ debounceTimers' = [debounceTimers EXCEPT ![t.doc] = 0]
    /\ timers' = timers \ {t}

FireDeleteIfSent(t) ==
    /\ out' = [Did("fire", t.doc, t.sched, broadcastIfAllowed(t.doc), 0)
                  EXCEPT !.times = 1]
    /\ debounceTimers' = IF broadcastIfAllowed(t.doc) # {}
                         THEN [debounceTimers EXCEPT ![t.doc] = 0]
                         ELSE debounceTimers
    /\ timers' = timers \ {t}

\* The timer callback: broadcastIfAllowed(e.document), once, then delete
\* the key.
FireNext(t) ==
    /\ out' = [Did("fire", t.doc, t.sched, broadcastIfAllowed(t.doc), 0)
                  EXCEPT !.times = 1]
    /\ debounceTimers' = [debounceTimers EXCEPT ![t.doc] = 0]
    /\ timers' = timers \ {t}

\* A debounce timer expires: broadcastIfAllowed, then delete the key.
TimerFire(t) ==
    /\ FireNext(t)
    /\ UNCHANGED << wss, httpServer, activePort, currentRoot, listenersRegistered,
                    handlers, serverState, calls, servers, hubs, clients, foreign, docText >>
    /\ Track("fire", t.doc)

OnSaveUnlessPending(d) ==
    /\ out' = [Did("save", d, "none",
                   IF debounceTimers[d] # 0 THEN {} ELSE broadcastIfAllowed(d), 0)
                  EXCEPT !.times = handlers]
    /\ UNCHANGED << timers, debounceTimers >>

\* The onDidSaveTextDocument event: every registered save handler runs
\* broadcastIfAllowed(doc); times is the number of handlers that ran.
OnSave(d) ==
    /\ out' = [Did("save", d, "none", broadcastIfAllowed(d), 0)
                  EXCEPT !.times = handlers]
    /\ UNCHANGED << timers, debounceTimers >>

Save(d) ==
    /\ listenersRegistered
    /\ OnSave(d)
    /\ UNCHANGED << wss, httpServer, activePort, currentRoot, listenersRegistered,
                    handlers, serverState, calls, servers, hubs, clients, foreign, docText >>
    /\ Track("save", d)

\* ------------------------------------------------------------- clients
\* A browser socket is upgraded by a listening server whose hub is attached.
ClientConnect(c, i) ==
    /\ clients[c].hub = 0
    /\ servers[i].status = "listening"
    /\ hubs[i] = "open"
    /\ clients' = [clients EXCEPT ![c] = [hub |-> i, rs |-> 1]]
    /\ out' = Quiet
    /\ UNCHANGED << wss, httpServer, activePort, currentRoot, listenersRegistered,
                    handlers, debounceTimers, serverState, calls, servers, hubs, timers,
                    foreign, docText >>
    /\ Track("step", 0)

\* The closing handshake has begun: readyState 2, still in the hub's set.
ClientClosing(c) ==
    /\ clients[c].hub # 0
    /\ clients[c].rs = 1
    /\ clients' = [clients EXCEPT ![c].rs = 2]
    /\ out' = Quiet
    /\ UNCHANGED << wss, httpServer, activePort, currentRoot, listenersRegistered,
                    handlers, debounceTimers, serverState, calls, servers, hubs, timers,
                    foreign, docText >>
    /\ Track("step", 0)

\* The socket is closed and leaves the hub's set.
ClientClosed(c) ==
    /\ clients[c].hub # 0
    /\ clients' = [clients EXCEPT ![c] = NoClient]
    /\ out' = Quiet
    /\ UNCHANGED << wss, httpServer, activePort, currentRoot, listenersRegistered,
                    handlers, debounceTimers, serverState, calls, servers, hubs, timers,
                    foreign, docText >>
    /\ Track("step", 0)

\* ------------------------------------------------------------- requests
\* What a GET can meet in the request handler, and the status it is
\* answered with; 0: the handler threw or the stream failed, no answer is
\* written and the exception goes to the host's uncaught-exception handler.
RequestKinds ==
    { "script", "missing", "html", "htmlUnreadable", "text", "textUnreadable",
      "binary", "binaryUnreadable" }

Status(kind) ==
    CASE kind = "missing" -> 404
      [] kind = "htmlUnreadable" -> 500
      [] kind \in {"textUnreadable", "binaryUnreadable"} -> 0
      [] OTHER -> 200

\* The request handler of listener i; out.ret is the status.
Request(i, kind) ==
    /\ servers[i].status = "listening"
    /\ out' = Did("request", 0, "none", {}, Status(kind))
    /\ UNCHANGED << wss, httpServer, activePort, currentRoot, listenersRegistered,
                    handlers, debounceTimers, serverState, calls, servers, hubs, clients,
                    timers, foreign, docText >>
    /\ Track("step", 0)

\* ---------------------------------------------------------- environment
ForeignBind(p) ==
    /\ p \notin BoundPorts
    /\ foreign' = foreign \cup {p}
    /\ out' = Quiet
    /\ UNCHANGED << wss, httpServer, activePort, currentRoot, listenersRegistered,
                    handlers, debounceTimers, serverState, calls, servers, hubs, clients,
                    timers, docText >>
    /\ Track("step", 0)

ForeignRelease(p) ==
    /\ p \in foreign
    /\ foreign' = foreign \ {p}
    /\ out' = Quiet
    /\ UNCHANGED << wss, httpServer, activePort, currentRoot, listenersRegistered,
                    handlers, debounceTimers, serverState, calls, servers, hubs, clients,
                    timers, docText >>
    /\ Track("step", 0)

\* ------------------------------------------------------------- injection
\* Text is a tuple of characters; includes and replace are computed on it.
MaxChunks == 3         \* a document is made of at most this many pieces
MaxRuns == 2           \* applications of injectScript to one document

ScriptName == <<"f", "l", "a", "s", "h", "s", "y", "n", "c", ".", "j", "s">>
HeadClose == <<"<", "/", "h", "e", "a", "d", ">">>
BodyClose == <<"<", "/", "b", "o", "d", "y", ">">>

\* The pieces documents are made of: the two closing tags, the script's file
\* name whole and in two parts, a closing tag in upper case and plain text.
Chunks ==
    { HeadClose, BodyClose, ScriptName,
      <<"f", "l", "a", "s", "h", "s", "y", "n", "c", ".", "j">>, <<"s">>,
      <<"<", "/", "H", "E", "A", "D", ">">>, <<"x">> }

RECURSIVE Concat(_)
Concat(ss) == IF ss = << >> THEN << >> ELSE Head(ss) \o Concat(Tail(ss))

Documents ==
    { Concat(ss) : ss \in UNION { [1..n -> Chunks] : n \in 0..MaxChunks } }

StartsAt(s, i, t) ==
    /\ i >= 1
    /\ i + Len(t) - 1 <= Len(s)
    /\ SubSeq(s, i, i + Len(t) - 1) = t

Occurrences(s, t) == {i \in 1..Len(s) : StartsAt(s, i, t)}

\* String.prototype.indexOf, counted from 1; 0 when there is none.
IndexOf(s, t) ==
    IF Occurrences(s, t) = {} THEN 0
    ELSE CHOOSE i \in Occurrences(s, t) : \A j \in Occurrences(s, t) : i <= j

includes(s, t) == IndexOf(s, t) # 0

\* String.prototype.replace with a string pattern: the first occurrence
\* only. The replacement holds no "$", so it is inserted as it is.
replace(s, t, r) ==
    LET i == IndexOf(s, t)
    IN  IF i = 0 THEN s
        ELSE SubSeq(s, 1, i - 1) \o r \o SubSeq(s, i + Len(t), Len(s))

DigitChar(n) ==
    CASE n = 0 -> "0" [] n = 1 -> "1" [] n = 2 -> "2" [] n = 3 -> "3"
      [] n = 4 -> "4" [] n = 5 -> "5" [] n = 6 -> "6" [] n = 7 -> "7"
      [] n = 8 -> "8" [] n = 9 -> "9"

\* ${port}: the decimal digits of the number.
RECURSIVE Decimal(_)
Decimal(n) ==
    IF n < 10 THEN << DigitChar(n) >>
    ELSE Decimal(n \div 10) \o << DigitChar(n % 10) >>

\* `\n<script src="http://127.0.0.1:${port}/flashsync.js" defer></script>\n`
ScriptTag(port) ==
    << "\n", "<", "s", "c", "r", "i", "p", "t", " ", "s", "r", "c", "=", "\"",
       "h", "t", "t", "p", ":", "/", "/",
       "1", "2", "7", ".", "0", ".", "0", ".", "1", ":" >>
    \o Decimal(port)
    \o << "/", "f", "l", "a", "s", "h", "s", "y", "n", "c", ".", "j", "s", "\"",
          " ", "d", "e", "f", "e", "r", ">",
          "<", "/", "s", "c", "r", "i", "p", "t", ">", "\n" >>

injectAlways(html, port) ==
    IF includes(html, HeadClose)
    THEN replace(html, HeadClose, ScriptTag(port) \o HeadClose)
    ELSE IF includes(html, BodyClose)
    THEN replace(html, BodyClose, ScriptTag(port) \o BodyClose)
    ELSE html \o ScriptTag(port)

injectBodyFirst(html, port) ==
    IF includes(html, ScriptName) THEN html
    ELSE IF includes(html, BodyClose)
    THEN replace(html, BodyClose, ScriptTag(port) \o BodyClose)
    ELSE IF includes(html, HeadClose)
    THEN replace(html, HeadClose, ScriptTag(port) \o HeadClose)
    ELSE html \o ScriptTag(port)

injectScript(html, port) ==
    IF includes(html, ScriptName) THEN html
    ELSE IF includes(html, HeadClose)
    THEN replace(html, HeadClose, ScriptTag(port) \o HeadClose)
    ELSE IF includes(html, BodyClose)
    THEN replace(html, BodyClose, ScriptTag(port) \o BodyClose)
    ELSE html \o ScriptTag(port)

\* A document and a port are chosen; injectScript is applied to the
\* document, then to its own result.
InitInject ==
    /\ InitSession(ClientIds)
    /\ page = NoPage
    /\ \E d \in Documents, p \in Ports :
          inj = [src |-> d, port |-> p, runs |-> 0, prev |-> d, text |-> d]

Inject ==
    /\ inj.runs < MaxRuns
    /\ inj' = [inj EXCEPT !.runs = @ + 1,
                          !.prev = inj.text,
                          !.text = injectScript(inj.text, inj.port)]
    /\ UNCHANGED << wss, httpServer, activePort, currentRoot, listenersRegistered,
                    handlers, debounceTimers, serverState, calls, servers, hubs, clients,
                    timers, foreign, docText, out, burst, page >>

\* ------------------------------------------------------- specification
\* Every step but the late delivery of a listening callback.
NextCancelling ==
    \/ \E wf \in Folders : Toggle(wf)
    \/ \E wf \in Folders : OpenFile(wf)
    \/ \E b \in BOOLEAN : Stop(b)
    \/ \E i \in Slots : ProbeError(i)
    \/ \E i \in Slots : StartResume(i)
    \/ \E i \in Slots : ListenCallback(i)
    \/ \E i \in Slots : ListenError(i)
    \/ \E i \in Slots : DropListenCallback(i)
    \/ \E d \in Docs : Edit(d)
    \/ \E t \in timers : TimerFire(t)
    \/ \E d \in Docs : Save(d)
    \/ \E c \in DOMAIN clients, i \in Slots : ClientConnect(c, i)
    \/ \E c \in DOMAIN clients : ClientClosing(c)
    \/ \E c \in DOMAIN clients : ClientClosed(c)

Next ==
    \/ NextCancelling
    \/ \E i \in Slots : LateListenCallback(i)

Spec == Init /\ [][Next]_vars

\* The program with the event loop running every timer that is due.
SpecTimersFair == Spec /\ WF_vars(\E t \in timers : TimerFire(t))

\* The program on a runtime where closing a listener always cancels its
\* pending listening callback: a part of the behaviours of Spec.
SpecCancelling == Init /\ [][NextCancelling]_vars

\* The same program with other processes binding and releasing the preferred
\* port around it.
NextForeign ==
    \/ Next
    \/ \E p \in ForeignPorts : ForeignBind(p)
    \/ \E p \in ForeignPorts : ForeignRelease(p)

SpecForeign == Init /\ [][NextForeign]_vars

\* The session's life alone, with other processes around it: the commands,
\* the port probe, the listener; no document is edited and no browser
\* connects.
NextPorts ==
    \/ \E wf \in Folders : Toggle(wf)
    \/ \E wf \in Folders : OpenFile(wf)
    \/ \E b \in BOOLEAN : Stop(b)
    \/ \E i \in Slots : ProbeError(i)
    \/ \E i \in Slots : StartResume(i)
    \/ \E i \in Slots : ListenCallback(i)
    \/ \E i \in Slots : ListenError(i)
    \/ \E i \in Slots : DropListenCallback(i)
    \/ \E i \in Slots : LateListenCallback(i)
    \/ \E p \in ForeignPorts : ForeignBind(p)
    \/ \E p \in ForeignPorts : ForeignRelease(p)

SpecPorts == Init /\ [][NextPorts]_vars

\* The same, with the event loop delivering what is due: the outcome of a
\* probe under way and the outcome of a listen under way. Commands and other
\* processes come when they come.
SpecPortsFair ==
    /\ SpecPorts
    /\ \A i \in Slots : WF_vars(ProbeError(i) \/ StartResume(i))
    /\ \A i \in Slots : WF_vars(ListenCallback(i) \/ ListenError(i))

\* ------------------------------------------------------- client script
\* page.socks: every WebSocket the page has created, by readyState
\* ("connecting", "open", "closing", "closed"; "none" = not created yet);
\* page.pending: the setTimeout(connect, 800) timers not yet run;
\* page.style: the text of style[data-flashsync] (0 = no such element);
\* page.dom: the text the document was last patched to (0 = as loaded);
\* page.last: the last message received and what was done with it.
NotPage == << wss, httpServer, activePort, currentRoot, listenersRegistered,
              handlers, debounceTimers, serverState, calls, servers, hubs, clients, timers,
              foreign, docText, out, burst, inj >>

\* The file names a message can carry: those of the documents the server
\* broadcasts, in either case.
SentFiles ==
    { f \in { <<"a", ".", "H", "T", "M">>, <<"i", ".", "h", "t", "m", "l">>,
              <<"I", ".", "H", "T", "M", "L">>, <<"s", ".", "c", "s", "s">>,
              <<"S", ".", "C", "S", "S">>, <<"n", ".", "j", "s">> } : IsWatched(f) }
Contents == 1..MaxEdits

endsWith(s, t) == Len(t) <= Len(s) /\ SubSeq(s, Len(s) - Len(t) + 1, Len(s)) = t

\* ws.onmessage: what the handler does for a message with this file name.
PatchKind(file) ==
    IF endsWith(toLowerCase(file), <<".", "c", "s", "s">>) THEN "css"
    ELSE IF endsWith(toLowerCase(file), <<".", "h", "t", "m", "l">>) THEN "html"
    ELSE "none"

Created == {s \in 1..MaxSockets : page.socks[s] # "none"}

\* connect(): a new WebSocket, connecting.
connect(pg) ==
    LET s == CHOOSE x \in 1..MaxSockets :
                /\ pg.socks[x] = "none"
                /\ \A y \in 1..MaxSockets : pg.socks[y] = "none" => x <= y
    IN  [pg EXCEPT !.socks[s] = "connecting"]

\* The script runs in a served page: loadMorphdom(connect).
PageLoad ==
    /\ ~page.loaded
    /\ page' = connect([page EXCEPT !.loaded = TRUE])
    /\ UNCHANGED NotPage

\* ws.onopen.
WsOpen(s) ==
    /\ page.socks[s] = "connecting"
    /\ page' = [page EXCEPT !.socks[s] = "open"]
    /\ UNCHANGED NotPage

\* ws.onmessage with {file, content}.
WsMessage(s, f, v) ==
    /\ page.socks[s] = "open"
    /\ page' = [page EXCEPT
                  !.style = IF PatchKind(f) = "css" THEN v ELSE @,
                  !.dom = IF PatchKind(f) = "html" THEN v ELSE @,
                  !.last = [file |-> f, content |-> v, kind |-> PatchKind(f)]]
    /\ UNCHANGED NotPage

WsErrorReconnects(s) ==
    /\ page.socks[s] \in {"connecting", "open"}
    /\ Cardinality(Created) < MaxSockets
    /\ page' = [page EXCEPT !.socks[s] = "closing", !.pending = @ + 1]
    /\ UNCHANGED NotPage

\* ws.onerror: the connection has failed; the handler calls ws.close().
\* The number of failures of one page is what bounds the run.
WsError(s) ==
    /\ page.socks[s] \in {"connecting", "open"}
    /\ Cardinality(Created) < MaxSockets
    /\ page' = [page EXCEPT !.socks[s] = "closing"]
    /\ UNCHANGED NotPage

\* The server or the network starts closing the connection; no error event.
WsPeerClose(s) ==
    /\ page.socks[s] = "open"
    /\ Cardinality(Created) < MaxSockets
    /\ page' = [page EXCEPT !.socks[s] = "closing"]
    /\ UNCHANGED NotPage

\* ws.onclose, fired once per socket: setTimeout(connect, 800).
WsClose(s) ==
    /\ page.socks[s] = "closing"
    /\ page' = [page EXCEPT !.socks[s] = "closed", !.pending = @ + 1]
    /\ UNCHANGED NotPage

\* The reconnection timer runs connect().
ReconnectTimer ==
    /\ page.pending > 0
    /\ \E x \in 1..MaxSockets : page.socks[x] = "none"
    /\ page' = connect([page EXCEPT !.pending = @ - 1])
    /\ UNCHANGED NotPage

NextClient ==
    \/ PageLoad
    \/ \E s \in 1..MaxSockets : WsOpen(s)
    \/ \E s \in 1..MaxSockets, f \in SentFiles, v \in Contents : WsMessage(s, f, v)
    \/ \E s \in 1..MaxSockets : WsError(s)
    \/ \E s \in 1..MaxSockets : WsPeerClose(s)
    \/ \E s \in 1..MaxSockets : WsClose(s)
    \/ ReconnectTimer

\* The client script in one page; the browser runs its timers.
SpecClient == Init /\ [][NextClient]_vars /\ WF_vars(ReconnectTimer)

\* The hub with several browser sockets: the toggle and stop commands, the
\* watched document and the sockets.
InitHub ==
    /\ InitSession(1..MaxPeers)
    /\ inj = NoInj
    /\ page = NoPage

NextHub ==
    \/ \E wf \in Folders : Toggle(wf)
    \/ \E b \in BOOLEAN : Stop(b)
    \/ \E i \in Slots : ProbeError(i)
    \/ \E i \in Slots : StartResume(i)
    \/ \E i \in Slots : ListenCallback(i)
    \/ \E i \in Slots : ListenError(i)
    \/ \E i \in Slots : DropListenCallback(i)
    \/ Edit(CHOOSE d \in Docs : IsWatched(FileName(d)))
    \/ \E t \in timers : TimerFire(t)
    \/ Save(CHOOSE d \in Docs : IsWatched(FileName(d)))
    \/ \E c \in DOMAIN clients, i \in Slots : ClientConnect(c, i)
    \/ \E c \in DOMAIN clients : ClientClosing(c)
    \/ \E c \in DOMAIN clients : ClientClosed(c)

SpecHub == InitHub /\ [][NextHub]_vars

\* Everything that can go wrong around a session: the steps of NextHub with
\* one browser socket, other processes on the ports, and requests.
NextFaults ==
    \/ NextHub
    \/ \E p \in ForeignPorts : ForeignBind(p)
    \/ \E p \in ForeignPorts : ForeignRelease(p)
    \/ \E i \in Slots, k \in RequestKinds : Request(i, k)

SpecFaults == Init /\ [][NextFaults]_vars

\* injectScript on its own.
SpecInject == InitInject /\ [][Inject]_vars

\* ====================================================== properties
ProgramVars == << wss, httpServer, activePort, currentRoot, listenersRegistered,
                  handlers, debounceTimers, serverState, calls, servers, hubs, clients,
                  timers, docText >>

\* The document a.HTM, of a watched kind, and the document n.js, which is not.
Html == CHOOSE d \in Docs : FileName(d) = <<"a", ".", "H", "T", "M">>
Other == CHOOSE d \in Docs : FileName(d) = <<"n", ".", "j", "s">>

\* C1: every message handed to a client socket is sent at a moment when the
\* session state is running_editing; none is sent while stopped or paused.
C1_SendOnlyWhileLiveEditing ==
    \A m \in out.msgs : m.st = "running_editing"

\* A save that reached a client.
C1_Witness ==
    /\ out.op = "save"
    /\ out.msgs # {}

\* C2: whether an expiring debounce timer sends depends on the session state
\* at the expiry and not on the state at the time it was scheduled: with the
\* hub in place and a client open, the timer of a watched document sends iff
\* the state is running_editing when it fires.
C2_GateAtFireTime ==
    (/\ out.op = "fire"
     /\ out.doc = Html
     /\ wss # 0
     /\ OpenClients(wss) # {})
    => (out.msgs # {} <=> serverState = "running_editing")

\* A timer scheduled while LiveEditing fires while Paused, a client is open,
\* and nothing is sent.
C2_Witness ==
    /\ out.op = "fire"
    /\ out.doc = Html
    /\ out.sched = "running_editing"
    /\ serverState = "running_paused"
    /\ wss # 0
    /\ OpenClients(wss) # {}
    /\ out.msgs = {}

\* The other direction of C2: scheduled while Paused, fired after the resume,
\* and sent.
C2_WitnessResumed ==
    /\ out.op = "fire"
    /\ out.sched = "running_paused"
    /\ serverState = "running_editing"
    /\ out.msgs # {}

\* C3: a start invoked while a session is in place (an earlier start has
\* returned, no stop since) returns the port the earlier start returned,
\* which is the session's port, and changes nothing: no session field, no
\* listener, no hub, and no new invocation is left suspended.
C3_SecondStartIsNoOp ==
    /\ [](out.op = "startReturn" => out.ret = activePort /\ out.ret # 0)
    /\ [][ /\ (activePort' # activePort => out'.op \in {"startReturn", "stop"})
           /\ (out'.op = "start" /\ httpServer # 0
                  => /\ out'.ret = activePort
                     /\ out'.ret # 0
                     /\ UNCHANGED ProgramVars) ]_vars

\* A start that returned at once with the port, the session being live.
C3_Witness ==
    /\ out.op = "start"
    /\ out.ret # 0
    /\ out.ret = activePort
    /\ serverState = "running_editing"

\* A listener that was created and has not been closed.
Live(i) == servers[i].status \in {"binding", "listening", "failed"}

\* C4: at most one listener/hub pair exists, and every listener that was
\* created and not closed is the one the session holds.
C4_OneListenerHeldBySession ==
    \A i \in Slots : Live(i) => httpServer = i

StopAny == \E b \in BOOLEAN : Stop(b)

Cleared ==
    /\ wss = 0
    /\ httpServer = 0
    /\ activePort = 0
    /\ serverState = "stopped"

\* C5: stop can be invoked in every state; it leaves the state stopped with
\* the hub, the listener and the port cleared; and a stop invoked when these
\* are already cleared changes nothing at all.
C5_StopTotalIdempotent ==
    /\ [](ENABLED StopAny)
    /\ [][ out'.op = "stop"
              => /\ Cleared'
                 /\ (Cleared => UNCHANGED ProgramVars) ]_vars

\* A stop that took down a session.
C5_Witness ==
    /\ out.op = "stop"
    /\ Cleared
    /\ \E i \in Slots : servers[i].status = "closed" /\ hubs[i] = "closed"

Listening == \E i \in Slots : ListenCallback(i) \/ LateListenCallback(i)
ToggleAny == \E wf \in {NoRoot} \cup Roots : Toggle(wf)

\* C6: the session state changes only by: stopped -> running_editing when a
\* start completes (the listening callback), running_editing ->
\* running_paused by pause, running_paused -> running_editing by resume, and
\* any state -> stopped by stop.

C6_Transitions ==
    [][ serverState' # serverState
          => \/ /\ serverState = "stopped"
                /\ serverState' = "running_editing"
                /\ Listening
             \/ /\ serverState = "running_editing"
                /\ serverState' = "running_paused"
                /\ ToggleAny
             \/ /\ serverState = "running_paused"
                /\ serverState' = "running_editing"
                /\ ToggleAny
             \/ /\ serverState' = "stopped"
                /\ out'.op = "stop" ]_vars

\* The pairs of states of C6 without the operations: these do hold.
C6_StatePairs ==
    [][ serverState' # serverState
          => << serverState, serverState' >> \in
                { << "stopped", "running_editing" >>,
                  << "running_editing", "running_paused" >>,
                  << "running_paused", "running_editing" >>,
                  << "running_editing", "stopped" >>,
                  << "running_paused", "stopped" >> } ]_vars

\* C7: N >= 1 edits of one watched document, each before the previous one's
\* quiet window has elapsed, with no save, while the state stays
\* running_editing and a client stays open: when the timer fires, that is the
\* one broadcast of the burst, the client gets exactly one message, and its
\* content is the text as of the last edit.
C7_OneBroadcastPerBurst ==
    (/\ out.op = "fire"
     /\ out.doc = Html
     /\ ~burst[Html].saved)
    => \A c \in burst[Html].cs :
          /\ burst[Html].bcasts = 1
          /\ Pending(Html) = {}
          /\ {m \in out.msgs : m.to = c} =
                {[to |-> c, hub |-> wss, doc |-> Html, file |-> FileName(Html),
                  content |-> docText[Html], st |-> "running_editing"]}

\* Two edits were coalesced into the one broadcast just made.
C7_Witness ==
    /\ out.op = "fire"
    /\ out.doc = Html
    /\ ~burst[Html].saved
    /\ burst[Html].n >= 2
    /\ burst[Html].cs # {}
    /\ burst[Html].bcasts = 1
    /\ docText[Html] = 2
    /\ \E m \in out.msgs : m.content = 2

\* C8: an edit of a watched document followed by a save of it before the
\* timer fires, the state staying running_editing with a client open: the
\* save sends at once, with the current text, and leaves the timer pending;
\* the timer sends again when it fires, so the burst has at least two
\* broadcasts.
C8_SaveBypass ==
    \A c \in burst[Html].cs :
       /\ (out.op = "save" /\ out.doc = Html)
             => /\ \E m \in out.msgs : m.to = c /\ m.doc = Html
                                        /\ m.content = docText[Html]
                /\ Pending(Html) # {}
                /\ debounceTimers[Html] # 0
                /\ burst[Html].bcasts >= 1
       /\ (out.op = "fire" /\ out.doc = Html /\ burst[Html].saved)
             => /\ \E m \in out.msgs : m.to = c /\ m.doc = Html
                                        /\ m.content = docText[Html]
                /\ burst[Html].bcasts >= 2

\* The timer has fired after a save in its window: two broadcasts.
C8_Witness ==
    /\ out.op = "fire"
    /\ out.doc = Html
    /\ burst[Html].saved
    /\ burst[Html].cs # {}
    /\ burst[Html].bcasts >= 2
    /\ out.msgs # {}

\* C9: no message is ever sent for the document n.js, whose extension is not
\* .html, .htm or .css.
C9_UnwatchedNeverSent ==
    \A m \in out.msgs : m.doc # Other /\ m.file # <<"n", ".", "j", "s">>

\* A save of n.js with the state running_editing and a client open on the
\* hub: nothing was sent.
C9_Witness ==
    /\ out.op = "save"
    /\ out.doc = Other
    /\ serverState = "running_editing"
    /\ wss # 0
    /\ OpenClients(wss) # {}
    /\ out.msgs = {}

\* C10: right after a stop no debounce timer is left: the pending-timer map
\* is empty and no timer is scheduled.
C10_NoTimerSurvivesStop ==
    out.op = "stop" => (timers = {} /\ \A d \in Docs : debounceTimers[d] = 0)

\* The number of places where t occurs in s.
Count(s, t) == Cardinality(Occurrences(s, t))

\* C11: a document that holds the script's file name comes back from
\* injectScript unchanged; one that does not comes back holding it exactly
\* once; and applying injectScript to its own result changes nothing.
C11_InjectIdempotent ==
    inj.runs >= 1
    => /\ (includes(inj.src, ScriptName) => inj.text = inj.src)
       /\ (~includes(inj.src, ScriptName) => Count(inj.text, ScriptName) = 1)
       /\ (inj.runs >= 2 => inj.text = inj.prev)

\* The second application to a document that had no reference at first.
C11_Witness ==
    /\ inj.runs = 2
    /\ ~includes(inj.src, ScriptName)
    /\ inj.text # inj.src
    /\ inj.text = inj.prev

\* The result is the document with the tag put in after its first k
\* characters.
PlacedAt(k) ==
    inj.text = SubSeq(inj.src, 1, k) \o ScriptTag(inj.port)
                  \o SubSeq(inj.src, k + 1, Len(inj.src))

\* t occurs in s at k + 1 and nowhere before.
FirstAt(s, k, t) ==
    /\ StartsAt(s, k + 1, t)
    /\ \A j \in 1..k : ~StartsAt(s, j, t)

\* C12: for a document without the script's file name, the result is the
\* document with the tag put in once, right before the first </head> if
\* there is one, otherwise right before the first </body> if there is one,
\* otherwise at the end; every other character stays where it was.
C12_InjectFallbackChain ==
    (inj.runs = 1 /\ ~includes(inj.src, ScriptName))
    => /\ Count(inj.text, ScriptTag(inj.port)) = 1
       /\ Len(inj.text) = Len(inj.src) + Len(ScriptTag(inj.port))
       /\ \E k \in 0..Len(inj.src) :
             /\ PlacedAt(k)
             /\ IF Occurrences(inj.src, HeadClose) # {}
                THEN FirstAt(inj.src, k, HeadClose)
                ELSE IF Occurrences(inj.src, BodyClose) # {}
                THEN FirstAt(inj.src, k, BodyClose)
                ELSE k = Len(inj.src)

\* A document with </body> before </head>: the tag went before </head>.
C12_Witness ==
    /\ inj.runs = 1
    /\ inj.src = BodyClose \o <<"x">> \o HeadClose
    /\ inj.text = BodyClose \o <<"x">> \o ScriptTag(inj.port) \o HeadClose

\* A document whose only closing tag is </body>.
C12_WitnessBody ==
    /\ inj.runs = 1
    /\ inj.src = <<"x">> \o BodyClose \o BodyClose
    /\ inj.text = <<"x">> \o ScriptTag(inj.port) \o BodyClose \o BodyClose

\* A document with neither tag: </HEAD> is not </head>.
C12_WitnessAppend ==
    /\ inj.runs = 1
    /\ inj.src = <<"<", "/", "H", "E", "A", "D", ">">>
    /\ inj.text = inj.src \o ScriptTag(inj.port)

\* C13: getFreePort starts at the preferred port, goes on to the next port
\* only when the one probed is bound at that moment, and does so whenever it
\* is bound (a busy port is retried, never reported); the port it resolves
\* with is not bound at the moment it is probed, so it differs from a bound
\* preferred port.
C13_AllocateSmallestFree ==
    /\ [](\A i \in Slots :
            (calls[i].pc = "probing" /\ calls[i].probe \in BoundPorts)
               => ENABLED ProbeError(i))
    /\ [][\A i \in Slots :
            /\ (calls[i].pc = "unused" /\ calls'[i].pc # "unused")
                  => calls'[i].pc = "probing" /\ calls'[i].probe = PreferredPort
            /\ (calls[i].pc = "probing" /\ calls'[i].probe # calls[i].probe)
                  => /\ calls[i].probe \in BoundPorts
                     /\ calls'[i].probe = calls[i].probe + 1
                     /\ calls'[i].pc = "probing"
            /\ (calls[i].pc = "probing" /\ calls'[i].pc # "probing")
                  => /\ calls[i].probe \notin BoundPorts
                     /\ out'.op = "startReturn"
                     /\ out'.ret = calls[i].probe
                     /\ activePort' = calls[i].probe ]_vars

\* The preferred port is held by another process and the start has returned
\* the next one.
C13_Witness ==
    /\ out.op = "startReturn"
    /\ PreferredPort \in foreign
    /\ out.ret = PreferredPort + 1
    /\ out.ret \notin foreign

\* C14: right after a stop every field of the session is cleared (the root
\* directory, the port, the listener and the hub) and the state is stopped.
C14_StopClearsSessionData ==
    out.op = "stop" => (Cleared /\ currentRoot = NoRoot)

\* The second half of C14: with no session and no start under way, a start
\* serves the first folder of the workspace as it is at that moment,
\* whatever was served before. It fails as well.
C14_StartNotInfluenced ==
    [][\A wf \in Roots :
          (/\ Toggle(wf)
           /\ Cleared
           /\ \A i \in Slots : calls[i].pc # "probing"
           /\ out'.op = "start")
             => currentRoot' = wf ]_vars

\* C15: a broadcast (the timer callback or the save handler getting past the
\* gates of broadcastIfAllowed) hands one message to each socket of the
\* current hub whose readyState is 1 and to no other socket; all of them
\* carry the same file name and the same text, the document's at that
\* moment; and no other step hands anything to any socket.
C15_RecipientsAreOpenClients ==
    /\ (/\ out.op \in {"fire", "save"}
        /\ wss # 0
        /\ serverState = "running_editing"
        /\ IsWatched(FileName(out.doc)))
       => /\ {m.to : m \in out.msgs} = OpenClients(wss)
          /\ Cardinality(out.msgs) = Cardinality(OpenClients(wss))
          /\ \A m \in out.msgs : /\ m.hub = wss
                                 /\ m.file = FileName(out.doc)
                                 /\ m.content = docText[out.doc]
    /\ out.op \notin {"fire", "save"} => out.msgs = {}

\* Two sockets on the current hub at a broadcast: one open, which got the
\* message, and one closing, which did not.
C15_Witness ==
    /\ out.op = "fire"
    /\ Cardinality(out.msgs) = 1
    /\ \E c \in DOMAIN clients : clients[c].hub = wss /\ clients[c].rs = 2

\* Two open sockets got the same message.
C15_WitnessTwo ==
    /\ out.op = "save"
    /\ Cardinality({m.to : m \in out.msgs}) = 2
    /\ Cardinality({<<m.file, m.content>> : m \in out.msgs}) = 1

\* C16: every message the server can broadcast is applied by the client:
\* for a file name ending in .css (in any case) the style element gets the
\* content, for one ending in .html or .htm the document is patched to it.
C16_EveryMessageApplied ==
    page.last # NoMsg
    => LET e == toLowerCase(extname(page.last.file))
       IN  /\ e = <<".", "c", "s", "s">> => page.style = page.last.content
           /\ e \in { <<".", "h", "t", "m", "l">>, <<".", "h", "t", "m">> }
                 => page.dom = page.last.content

\* What does hold: .css and .html messages are applied, in either case.
C16_CssAndHtmlApplied ==
    page.last # NoMsg
    => LET e == toLowerCase(extname(page.last.file))
       IN  /\ e = <<".", "c", "s", "s">> => page.style = page.last.content
           /\ e = <<".", "h", "t", "m", "l">> => page.dom = page.last.content

Closed == {s \in 1..MaxSockets : page.socks[s] = "closed"}
Usable == {s \in 1..MaxSockets : page.socks[s] \in {"connecting", "open"}}

\* C17: every close of a socket leads to exactly one connect() after the
\* delay, whatever the number of closes so far, and an error to one close:
\* the sockets created are the closed ones plus one, less the reconnection
\* still pending; a pending reconnection is always carried out; at most one
\* socket is connecting or open and at most one reconnection is pending.
C17_ReconnectOnce ==
    /\ [](page.loaded
            => /\ Cardinality(Created) = Cardinality(Closed) + 1 - page.pending
               /\ Cardinality(Usable) <= 1
               /\ page.pending <= 1
               /\ Cardinality(Usable) + page.pending <= 1)
    /\ [](page.pending > 0 => ENABLED ReconnectTimer)
    /\ [][\A s \in 1..MaxSockets :
            (page.socks[s] # "closed" /\ page'.socks[s] = "closed")
               => page'.pending = page.pending + 1 ]_vars
    /\ \A n \in 1..(MaxSockets - 1) :
          (Cardinality(Closed) = n) ~> (Cardinality(Created) = n + 1)

\* The second socket has closed and the third has been created.
C17_Witness ==
    /\ page.loaded
    /\ Cardinality(Closed) = 2
    /\ Cardinality(Created) = 3
    /\ page.pending = 0

\* A step in which something fails: the probe finds its port busy, the
\* session's listener cannot bind, a request is not answered with 200, a
\* browser socket errors or closes (also one a message was just handed to).
Failure ==
    \/ \E i \in Slots : ProbeError(i)
    \/ \E i \in Slots : ListenError(i)
    \/ \E i \in Slots, k \in RequestKinds : Request(i, k) /\ Status(k) # 200
    \/ \E c \in DOMAIN clients : ClientClosing(c)
    \/ \E c \in DOMAIN clients : ClientClosed(c)

C18_WitnessListen ==
    /\ httpServer # 0
    /\ servers[httpServer].status = "failed"
    /\ wss = httpServer
    /\ activePort = servers[httpServer].port

\* A socket has closed right after a message was handed to it.
C18_WitnessSend ==
    /\ out.op = "step"
    /\ serverState = "running_editing"
    /\ wss # 0
    /\ burst[Html].bcasts >= 1
    /\ \A c \in DOMAIN clients : clients[c] = NoClient

\* The session is LiveEditing and its listener accepts connections on the
\* session's port, the one its start returned.
LiveOnItsPort ==
    /\ serverState = "running_editing"
    /\ httpServer # 0
    /\ servers[httpServer].status = "listening"
    /\ servers[httpServer].port = activePort

\* C19: when a start is invoked with the state stopped and no stop comes
\* after it, the state becomes running_editing, with the session's listener
\* accepting connections on the port the start returned.
C19_StartReachesLiveEditing ==
    [](  (out.op = "start" /\ serverState = "stopped")
         => <>(LiveOnItsPort \/ out.op = "stop"))

\* What the failure comes to in a finite run: the listener the session holds
\* has failed to bind.
C19_SessionListenerNeverFails ==
    httpServer # 0 => servers[httpServer].status # "failed"

\* C20: the toggle command invoked with the state running_editing makes it
\* running_paused, invoked with running_paused makes it running_editing, and
\* in both cases changes nothing else: not the listener, the hub, the port,
\* the root, the sockets or the pending timers. The state becomes
\* running_paused in no other way, and a toggle with the state stopped
\* leaves the state stopped.
C20_PauseResumeFrame ==
    [][ /\ (ToggleAny /\ serverState # "stopped")
           => /\ serverState' = IF serverState = "running_editing"
                                THEN "running_paused" ELSE "running_editing"
              /\ UNCHANGED << wss, httpServer, activePort, currentRoot,
                              listenersRegistered, handlers, debounceTimers, calls, servers,
                              hubs, clients, timers, docText >>
        /\ (ToggleAny /\ serverState = "stopped") => serverState' = "stopped"
        /\ (serverState # "running_paused" /\ serverState' = "running_paused")
              => (serverState = "running_editing" /\ ToggleAny) ]_vars

\* Paused with a debounce timer pending and a socket open on the hub.
C20_Witness ==
    /\ serverState = "running_paused"
    /\ timers # {}
    /\ debounceTimers[Html] # 0
    /\ wss # 0
    /\ OpenClients(wss) # {}

\* C21: each document has at most one timer scheduled, and the map
\* debounceTimers holds exactly the scheduled timers: a document has an
\* entry iff it has a timer, and the entry is that timer. An edit of a
\* document replaces that document's timer and leaves the timers and the
\* entries of every other document as they are.
C21_OneTimerPerIdentity ==
    /\ [](\A d \in Docs :
            /\ Cardinality(Pending(d)) <= 1
            /\ debounceTimers[d] # 0 <=> Pending(d) # {}
            /\ \A t \in Pending(d) : t.id = debounceTimers[d])
    /\ [][\A d \in Docs :
            (Edit(d) /\ listenersRegistered)
               => /\ Cardinality(Pending(d)') = 1
                  /\ \A t \in Pending(d)' : t.id = docText'[d] /\ t \notin timers
                  /\ \A e \in Docs \ {d} :
                        /\ Pending(e)' = Pending(e)
                        /\ debounceTimers'[e] = debounceTimers[e] ]_vars

\* Both documents have a timer pending: the edit of the second left the
\* timer of the first in place.
C21_Witness ==
    /\ Pending(Html) # {}
    /\ Pending(Other) # {}
    /\ Cardinality(timers) = 2

\* The second edit of one document has replaced the timer of the first.
C21_WitnessReplaced ==
    /\ docText[Html] = 2
    /\ timers = {t \in timers : t.doc = Html /\ t.id = 2}
    /\ Cardinality(timers) = 1

\* C22: a timer that fires removes its document's entry from the map,
\* whether it sends or not (state paused or stopped, no hub, unwatched
\* extension, no open socket); and once the edits have ceased the map
\* becomes empty and stays empty.
C22_EntryRemovedOnFire ==
    /\ [][\A t \in timers :
            TimerFire(t) => (debounceTimers'[t.doc] = 0 /\ Pending(t.doc)' = {})]_vars
    /\ [](out.op = "fire" => debounceTimers[out.doc] = 0)
    /\ <>[](\A d \in Docs : debounceTimers[d] = 0)

\* A timer has fired after the stop, with nothing sent, and its entry is
\* gone.
C22_Witness ==
    /\ out.op = "fire"
    /\ out.doc = Html
    /\ out.msgs = {}
    /\ serverState = "stopped"
    /\ wss = 0
    /\ docText[Html] > 0
    /\ debounceTimers[Html] = 0

\* A timer has fired and sent, and its entry is gone.
C22_WitnessSent ==
    /\ out.op = "fire"
    /\ out.msgs # {}
    /\ debounceTimers[out.doc] = 0

\* C23: an edit of a document whose extension is not watched schedules no
\* timer and creates no map entry.
C23_UnwatchedEditIgnored ==
    \A d \in Docs :
        ~IsWatched(FileName(d)) => (debounceTimers[d] = 0 /\ Pending(d) = {})

\* C24: stop closes the hub before the listener and clears the session
\* fields after both closes; and every message is sent to a hub that has
\* not been closed, whatever timers are pending and whatever saves arrive
\* around the stop.
Position(L, name) == {i \in 1..Len(L) : L[i].call = name}

C24_TeardownOrder ==
    /\ out.op = "stop" =>
          /\ \A i \in Position(out.log, "wss.close") :
                /\ hubs[out.log[i].on] = "closed"
                /\ \A j \in Position(out.log, "httpServer.close") : i < j
          /\ \A j \in Position(out.log, "httpServer.close") :
                servers[out.log[j].on].status = "closed"
          /\ Position(out.log, "clear") = {Len(out.log)}
          /\ wss = 0
          /\ httpServer = 0
          /\ activePort = 0
          /\ serverState = "stopped"
    /\ \A m \in out.msgs : m.hub # 0 /\ hubs[m.hub] = "open"

\* A stop has closed a hub and a listener while a timer was pending.
C24_Witness ==
    /\ out.op = "stop"
    /\ Len(out.log) = 3
    /\ timers # {}

\* A timer scheduled before a stop has fired and sent in the next session.
C24_WitnessSendAfterStop ==
    /\ out.op = "fire"
    /\ out.msgs # {}
    /\ \E h \in Slots : hubs[h] = "closed"
    /\ docText[out.doc] = 1
    /\ \A d \in Docs \ {out.doc} : docText[d] = 0

\* C25: the session state agrees with the handles: the state is
\* running_editing or running_paused only while a listener and a hub exist.
C25_StateAgreesWithHandles ==
    serverState \in {"running_editing", "running_paused"}
        => (httpServer # 0 /\ wss # 0)

\* C26: the change and save handlers are registered at most once, and they
\* act on the current hub: every message of a save or of a timer expiry
\* goes to an open client of the hub wss names at that moment, and with
\* the state running_editing a save or an expiry of a watched document
\* sends exactly one message to each of these clients, however many starts
\* and stops, overlapping or not, came before.
SentTo(c) == out.times * Cardinality({m \in out.msgs : m.to = c})

C26_HandlersOnceOnCurrentHub ==
    /\ handlers <= 1
    /\ handlers = 1 <=> listenersRegistered
    /\ out.op \in {"save", "fire"} =>
          /\ out.times = 1
          /\ \A m \in out.msgs : m.hub = wss /\ m.to \in OpenClients(wss)
          /\ (/\ serverState = "running_editing"
              /\ wss # 0
              /\ IsWatched(FileName(out.doc)))
                => \A c \in OpenClients(wss) : SentTo(c) = 1

\* A save has sent on the hub of the second session, after a stop closed
\* the hub of the first.
C26_Witness ==
    /\ out.op = "save"
    /\ out.msgs # {}
    /\ hubs[1] = "closed"
    /\ wss = 2
    /\ handlers = 1

\* A timer has fired and sent on the second hub after overlapping starts
\* (the first hub was never closed).
C26_WitnessOverlap ==
    /\ out.op = "fire"
    /\ out.msgs # {}
    /\ hubs[1] = "open"
    /\ wss = 2
    /\ handlers = 1

====
